---- MODULE Spec2Model ----
(***************************************************************************)
(* H5P.InteractiveVideoInteraction (src/scripts/interaction.js).           *)
(*                                                                         *)
(* One Interaction object: the closure variables $interaction, $label and  *)
(* instance, the caller-owned parameters object, the pending setTimeout    *)
(* callbacks and image-load callbacks, and the calls made on the external  *)
(* collaborators (event dispatcher, dialog, sub-content instances).        *)
(*                                                                         *)
(* JavaScript numbers are modelled as exact rationals <<n, d>> (d > 0,     *)
(* lowest terms); <<0, 0>> stands for undefined/NaN.                       *)
(***************************************************************************)
EXTENDS Integers, Sequences, FiniteSets, TLC

\* ------------------------------------------------------------------ bounds
MaxSecond == 3      \* toggle is called with seconds 0..MaxSecond
MaxElems == 2       \* visual elements created in one run
MaxDialogs == 1     \* dialogs opened in one run

\* ------------------------------------------------------------- JS numbers
Abs(n) == IF n < 0 THEN -n ELSE n

RECURSIVE GCD(_, _)
GCD(a, b) == IF b = 0 THEN a ELSE GCD(b, a % b)

NaN == <<0, 0>>
IsNaN(a) == a[2] = 0

\* n/d in lowest terms with a positive denominator; x/0 is not a number
Rat(n, d) ==
    IF d = 0 THEN NaN
    ELSE LET g == GCD(Abs(n), Abs(d))
             s == IF d < 0 THEN -1 ELSE 1
         IN  <<s * (n \div g), s * (d \div g)>>

Num(n) == <<n, 1>>

RMul(a, b) == IF IsNaN(a) \/ IsNaN(b) THEN NaN ELSE Rat(a[1] * b[1], a[2] * b[2])
RDiv(a, b) == IF IsNaN(a) \/ IsNaN(b) THEN NaN ELSE Rat(a[1] * b[2], a[2] * b[1])
\* a > b; every comparison with NaN is false
RGt(a, b) == ~IsNaN(a) /\ ~IsNaN(b) /\ a[1] * b[2] > b[1] * a[2]
RLe(a, b) == ~IsNaN(a) /\ ~IsNaN(b) /\ a[1] * b[2] <= b[1] * a[2]
\* Math.round: floor(a + 1/2)
RRound(a) == IF IsNaN(a) THEN NaN ELSE Num((2 * a[1] + a[2]) \div (2 * a[2]))
\* JavaScript truthiness of a number: undefined, NaN and 0 are falsy
Truthy(a) == ~IsNaN(a) /\ a[1] # 0

\* ------------------------------------------------------------ the content
Libraries == {"H5P.Nil", "H5P.Image", "H5P.Summary", "H5P.Blanks",
              "H5P.DragQuestion", "H5P.Text"}
\* parameters.displayAsButton: an optional boolean
DisplayAsButtonValues == {"undefined", "true", "false"}
\* the visibility windows duration = {from, to}, from <= to
Durations == {[from |-> 1, to |-> 1], [from |-> 1, to |-> MaxSecond - 1]}
\* the value of a missing property (parameters.from)
Undefined == -1
Seconds == 0..MaxSecond
\* arguments of setPosition (percent) and setSize (em)
Positions == {<<10, 10>>, <<60, 40>>}
SizeArgs == {<<Num(20), Num(15)>>, <<Rat(21, 2), Num(8)>>}
\* computed font size, px: of the element of a drag question, of an image
FontSizes == {13, 16}
ImageFontSizes == {12}
\* em sizes dialog.getMaxSize answers, natural px sizes of images
MaxSizes == {<<40, 30>>}
NaturalSizes == {<<160, 160>>, <<1600, 900>>}
\* $dialogContent.height() of a summary dialog
Heights == {0, 10, 11}
MaxScrolls == 1     \* pending dialog.scroll timers
NoElem == 0
NoInstance == 0
NoSize == [width |-> NaN, height |-> NaN]
NoElement == [kind |-> "none", x |-> 0, y |-> 0, width |-> NaN, height |-> NaN, hidden |-> FALSE]
NoTimer == [kind |-> "none", elem |-> NoElem, inst |-> NoInstance]

VARIABLES
    library,         \* action.library.split(' ')[0]
    parameters,      \* the caller-owned parameters object
    questionSize,    \* action.params.question.settings.size (px)
    fontSize,        \* $interaction.css('fontSize') without 'px'
    dialogDisabled,  \* self.dialogDisabled
    interaction,     \* $interaction: the element handle, NoElem when unset
    label,           \* $label: the element whose label it is, NoElem when unset
    instance,        \* the constructor's instance variable
    dom,             \* the visual elements that exist (created, not removed)
    element,         \* what the element $interaction looks like
    labelLeft,       \* $label carries h5p-left-label
    instances,       \* sub-content instances: instance id -> owning element
    nextElem,        \* handle of the next element created
    timers,          \* pending setTimeout callbacks, in firing order
    loads,           \* pending image-load callbacks
    scrolls,         \* pending 500 ms dialog.scroll callbacks
    file,            \* action.params.file: the stored natural size of an image
    displayLog,      \* payloads of the 'display' events fired so far
    dialogOpens,     \* number of dialog.open calls so far
    lastOp           \* the call that ran last and what it did

vars == <<library, parameters, questionSize, fontSize, dialogDisabled, interaction,
          label, instance, dom, element, labelLeft, instances, nextElem, timers,
          loads, scrolls, file, displayLog, dialogOpens, lastOp>>
\* ----------------------------------------------------- the state of a call
\* The objects a call reads and writes, with what the call has done so far:
\* its return value, whether it threw a TypeError, and the calls it made on
\* the collaborators.
Cur ==
    [parameters |-> parameters, questionSize |-> questionSize,
     interaction |-> interaction, label |-> label, instance |-> instance,
     dom |-> dom, element |-> element, labelLeft |-> labelLeft,
     instances |-> instances, nextElem |-> nextElem, timers |-> timers,
     loads |-> loads, scrolls |-> scrolls, displayLog |-> displayLog,
     dialogOpens |-> dialogOpens,
     ret |-> NoElem, threw |-> FALSE, resized |-> <<>>, positions |-> <<>>,
     fits |-> <<>>, scheduled |-> <<>>, opened |-> NoInstance, displayed |-> <<>>]

\* setTimeout(callback, 0)
SetTimeout(s, t) ==
    [s EXCEPT !.timers = Append(@, t), !.scheduled = Append(@, t)]

\* self.trigger('display', $interaction)
TriggerDisplay(s) ==
    [s EXCEPT !.displayLog = Append(@, s.interaction),
              !.displayed = Append(@, s.interaction)]

\* i.$.trigger('resize'): a TypeError when i is undefined
TriggerResize(s, i) ==
    IF i = NoInstance THEN [s EXCEPT !.threw = TRUE]
    ELSE [s EXCEPT !.resized = Append(@, i)]

\* H5P.newRunnable(action, contentId, $container): a new sub-content instance
NewRunnable(s, owner) ==
    [s EXCEPT !.instances = Append(@, [owner |-> owner, lastHeight |-> 0])]

\* isButton without the test for the sentinel library
isButtonIgnoresSentinel(p) ==
    p.displayAsButton = "undefined" \/ p.displayAsButton = "true"

isButton(p) ==
    p.displayAsButton = "undefined" \/ p.displayAsButton = "true" \/ library = "H5P.Nil"

\* the window test without its upper end
OutsideWindowNoUpperEnd(d, second) ==
    second # Undefined /\ second < d.from

\* second < duration.from || second > duration.to; both are false for undefined
OutsideWindow(d, second) ==
    second # Undefined /\ (second < d.from \/ second > d.to)

createButton(s) ==
    LET e == s.nextElem
        withLabel == library = "H5P.Nil" \/ s.parameters.label
        s1 == [s EXCEPT !.interaction = e,
                        !.nextElem = e + 1,
                        !.dom = @ \cup {e},
                        !.element = [kind |-> "button", x |-> s.parameters.x,
                                     y |-> s.parameters.y, width |-> NaN,
                                     height |-> NaN, hidden |-> TRUE],
                        !.label = IF withLabel THEN e ELSE @,
                        !.labelLeft = IF withLabel THEN FALSE ELSE @]
    IN  SetTimeout(TriggerDisplay(s1), [kind |-> "transition", elem |-> e, inst |-> NoInstance])

createPoster(s) ==
    LET e == s.nextElem
        p == s.parameters
        s1 == [s EXCEPT !.interaction = e,
                        !.nextElem = e + 1,
                        !.dom = @ \cup {e},
                        !.element = [kind |-> "poster", x |-> p.x, y |-> p.y,
                                     width |-> IF Truthy(p.width) THEN p.width ELSE Num(10),
                                     height |-> IF Truthy(p.height) THEN p.height ELSE Num(10),
                                     hidden |-> FALSE]]
        s2 == NewRunnable(s1, e)
        s3 == [s2 EXCEPT !.instance = Len(s2.instances)]
    IN  SetTimeout(TriggerDisplay(s3),
                   [kind |-> "posterResize", elem |-> e, inst |-> s3.instance])

\* remove that leaves $interaction set
removeKeepsHandle(s, updateSize) ==
    IF s.interaction # NoElem
    THEN [s EXCEPT !.dom = @ \ {s.interaction}, !.element = NoElement]
    ELSE s

\* remove that synchronises the sizes whatever updateSize is
removeAlwaysUpdatesSize(s, updateSize) ==
    IF s.interaction # NoElem
    THEN LET size == s.questionSize
             fs == Num(fontSize)
             s1 == IF library = "H5P.DragQuestion"
                   THEN IF isButton(s.parameters)
                        THEN [s EXCEPT !.parameters.width = RDiv(size.width, fs),
                                       !.parameters.height = RDiv(size.height, fs)]
                        ELSE [s EXCEPT !.questionSize.width = RRound(RMul(s.parameters.width, fs)),
                                       !.questionSize.height = RRound(RMul(s.parameters.height, fs))]
                   ELSE s
         IN  [s1 EXCEPT !.dom = @ \ {s.interaction},
                        !.interaction = NoElem,
                        !.element = NoElement]
    ELSE s

\* remove without the test for an element on display
removeUnguarded(s, updateSize) ==
    LET size == s.questionSize
        fs == Num(fontSize)
        s1 == IF updateSize /\ library = "H5P.DragQuestion"
              THEN IF isButton(s.parameters)
                   THEN [s EXCEPT !.parameters.width = RDiv(size.width, fs),
                                  !.parameters.height = RDiv(size.height, fs)]
                   ELSE [s EXCEPT !.questionSize.width = RRound(RMul(s.parameters.width, fs)),
                                  !.questionSize.height = RRound(RMul(s.parameters.height, fs))]
              ELSE s
    IN  [s1 EXCEPT !.dom = @ \ {s.interaction},
                   !.interaction = NoElem,
                   !.element = NoElement]

remove(s, updateSize) ==
    IF s.interaction # NoElem
    THEN LET size == s.questionSize
             fs == Num(fontSize)
             s1 == IF updateSize /\ library = "H5P.DragQuestion"
                   THEN IF isButton(s.parameters)
                        THEN [s EXCEPT !.parameters.width = RDiv(size.width, fs),
                                       !.parameters.height = RDiv(size.height, fs)]
                        ELSE [s EXCEPT !.questionSize.width = RRound(RMul(s.parameters.width, fs)),
                                       !.questionSize.height = RRound(RMul(s.parameters.height, fs))]
                   ELSE s
         IN  [s1 EXCEPT !.dom = @ \ {s.interaction},
                        !.interaction = NoElem,
                        !.element = NoElement]
    ELSE s

\* toggle without the test for an element already on display
toggleAlwaysCreates(s, second) ==
    IF OutsideWindow(s.parameters.duration, second)
    THEN [(IF s.interaction # NoElem THEN remove(s, FALSE) ELSE s) EXCEPT !.ret = NoElem]
    ELSE LET c == IF isButton(s.parameters) THEN createButton(s) ELSE createPoster(s)
         IN  [c EXCEPT !.ret = c.interaction]

toggle(s, second) ==
    IF OutsideWindow(s.parameters.duration, second)
    THEN [(IF s.interaction # NoElem THEN remove(s, FALSE) ELSE s) EXCEPT !.ret = NoElem]
    ELSE IF s.interaction # NoElem
         THEN [s EXCEPT !.ret = NoElem]
         ELSE LET c == IF isButton(s.parameters) THEN createButton(s) ELSE createPoster(s)
              IN  [c EXCEPT !.ret = c.interaction]

\* setPosition that stores only the left coordinate
setPositionLeftOnly(s, x, y) ==
    [s EXCEPT !.parameters.x = x]

setPosition(s, x, y) ==
    [s EXCEPT !.parameters.x = x, !.parameters.y = y]

\* parameters.from is not a property of parameters: toggle is called with undefined
setSize(s, width, height) ==
    LET s1 == [s EXCEPT !.parameters.width = width, !.parameters.height = height]
        s2 == IF library = "H5P.DragQuestion"
              THEN [toggle(remove(s1, TRUE), Undefined) EXCEPT !.ret = NoElem]
              ELSE s1
    IN  TriggerResize(s2, s2.instance)

\* positionLabel that also flips a label whose right edge is at the container width
positionLabelAtEdge(s, width, left, labelLeftOffset, labelWidth) ==
    IF ~isButton(s.parameters) \/ s.label = NoElem
    THEN s
    ELSE LET s1 == [s EXCEPT !.labelLeft = FALSE]
         IN  IF s.interaction = NoElem
             THEN [s1 EXCEPT !.threw = TRUE]
             ELSE [s1 EXCEPT !.labelLeft = (left + labelLeftOffset + labelWidth >= width)]

\* left, labelLeftOffset, labelWidth: parseInt($interaction.css('left')),
\* $label.position().left and $label.outerWidth()
positionLabel(s, width, left, labelLeftOffset, labelWidth) ==
    IF ~isButton(s.parameters) \/ s.label = NoElem
    THEN s
    ELSE LET s1 == [s EXCEPT !.labelLeft = FALSE]
         IN  IF s.interaction = NoElem
             THEN [s1 EXCEPT !.threw = TRUE]
             ELSE [s1 EXCEPT !.labelLeft = (left + labelLeftOffset + labelWidth > width)]
\* the fitting passes with a width pass that leaves the height as it is
ScaleToFitKeepsHeight(max, size) ==
    LET w0 == RDiv(size.width, Num(16))
        h0 == RDiv(size.height, Num(16))
        tall == RGt(h0, max.height)
        w1 == IF tall THEN RDiv(RMul(w0, max.height), h0) ELSE w0
        h1 == IF tall THEN max.height ELSE h0
        wide == RGt(w1, max.width)
        w2 == IF wide THEN max.width ELSE w1
    IN  [width |-> w2, height |-> h1]

\* The two fitting passes of resizeImage on the px size converted to em:
\* fit to max.height first, then to max.width.
ScaleToFit(max, size) ==
    LET w0 == RDiv(size.width, Num(16))
        h0 == RDiv(size.height, Num(16))
        tall == RGt(h0, max.height)
        w1 == IF tall THEN RDiv(RMul(w0, max.height), h0) ELSE w0
        h1 == IF tall THEN max.height ELSE h0
        wide == RGt(w1, max.width)
        h2 == IF wide THEN RDiv(RMul(h1, max.width), w1) ELSE h1
        w2 == IF wide THEN max.width ELSE w1
    IN  [width |-> w2, height |-> h2]

resizeImage(s, max, size) ==
    LET fitted == ScaleToFit(max, size)
        fontSizeRatio == Rat(16, fontSize)
        css == [width |-> RMul(fitted.width, fontSizeRatio),
                height |-> RMul(fitted.height, fontSizeRatio)]
    IN  [s EXCEPT !.fits = Append(@, [max |-> max, natural |-> size,
                                      size |-> fitted, css |-> css]),
                  !.positions = Append(@, [anchor |-> s.interaction, size |-> fitted])]

\* dialog.position($interaction)
DialogPosition(s) ==
    [s EXCEPT !.positions = Append(@, [anchor |-> s.interaction, size |-> NoSize])]

\* openDialog that positions the dialog for every library but the image
openDialogPositionsAll(s, max) ==
    LET s1 == NewRunnable(s, NoElem)
        i == Len(s1.instances)
        s2 == [s1 EXCEPT !.dialogOpens = @ + 1, !.opened = i]
        s3 == IF library = "H5P.Image"
              THEN IF Truthy(file.width) /\ Truthy(file.height)
                   THEN resizeImage(s2, max, file)
                   ELSE DialogPosition([s2 EXCEPT !.loads = Append(@, [max |-> max, inst |-> i])])
              ELSE DialogPosition(s2)
    IN  SetTimeout(s3, [kind |-> "dialogResize", elem |-> s.interaction, inst |-> i])

\* openDialog that sends the resize notification inside the call
openDialogResizesAtOnce(s, max) ==
    LET s1 == NewRunnable(s, NoElem)
        i == Len(s1.instances)
        s2 == [s1 EXCEPT !.dialogOpens = @ + 1, !.opened = i]
        s3 == IF library = "H5P.Image"
              THEN IF Truthy(file.width) /\ Truthy(file.height)
                   THEN resizeImage(s2, max, file)
                   ELSE DialogPosition([s2 EXCEPT !.loads = Append(@, [max |-> max, inst |-> i])])
              ELSE IF ~(library = "H5P.Summary" \/ library = "H5P.Blanks")
                   THEN DialogPosition(s2)
                   ELSE s2
    IN  TriggerResize(s3, i)

\* max: what dialog.getMaxSize($interaction) answers
openDialog(s, max) ==
    LET s1 == NewRunnable(s, NoElem)
        i == Len(s1.instances)
        s2 == [s1 EXCEPT !.dialogOpens = @ + 1, !.opened = i]
        s3 == IF library = "H5P.Image"
              THEN IF Truthy(file.width) /\ Truthy(file.height)
                   THEN resizeImage(s2, max, file)
                   ELSE DialogPosition([s2 EXCEPT !.loads = Append(@, [max |-> max, inst |-> i])])
              ELSE IF ~(library = "H5P.Summary" \/ library = "H5P.Blanks")
                   THEN DialogPosition(s2)
                   ELSE s2
    IN  SetTimeout(s3, [kind |-> "dialogResize", elem |-> s.interaction, inst |-> i])

\* the click handler without the test for the sentinel library
clickIgnoresSentinel(s, max) ==
    IF ~dialogDisabled THEN openDialog(s, max) ELSE s

\* the click handler of the button
click(s, max) ==
    IF ~dialogDisabled /\ library # "H5P.Nil" THEN openDialog(s, max) ELSE s

\* the resize listener that also scrolls at a difference of exactly 10
resizeListenerAtThreshold(s, i, height) ==
    IF library = "H5P.Summary" /\ s.instances[i].owner = NoElem
    THEN LET lastHeight == s.instances[i].lastHeight
             s1 == IF lastHeight >= height + 10 \/ lastHeight <= height - 10
                   THEN [s EXCEPT !.scrolls = Append(@, [height |-> height, inst |-> i])]
                   ELSE s
         IN  [s1 EXCEPT !.instances[i].lastHeight = height]
    ELSE s

\* the 'resize' listener openDialog attaches to the instance of a summary;
\* height: what $dialogContent.height() measures
resizeListener(s, i, height) ==
    IF library = "H5P.Summary" /\ s.instances[i].owner = NoElem
    THEN LET lastHeight == s.instances[i].lastHeight
             s1 == IF lastHeight > height + 10 \/ lastHeight < height - 10
                   THEN [s EXCEPT !.scrolls = Append(@, [height |-> height, inst |-> i])]
                   ELSE s
         IN  [s1 EXCEPT !.instances[i].lastHeight = height]
    ELSE s

\* the callback of a setTimeout(..., 0)
timeout(s, t, height) ==
    CASE t.kind = "transition" ->
             IF s.interaction = NoElem THEN [s EXCEPT !.threw = TRUE]
             ELSE [s EXCEPT !.element.hidden = FALSE]
      [] t.kind = "posterResize" -> TriggerResize(s, s.instance)
      [] OTHER -> resizeListener(TriggerResize(s, t.inst), t.inst, height)

\* the callback of $img.load; visible: $img.is(':visible')
imageLoaded(s, l, visible, natural) ==
    IF visible THEN resizeImage(s, l.max, natural) ELSE s

RemoveAt(q, k) == [j \in 1..(Len(q) - 1) |-> IF j < k THEN q[j] ELSE q[j + 1]]

\* -------------------------------------------------------------- the calls
NoArgs == [second |-> Undefined, updateSize |-> FALSE, size |-> NoSize,
           timer |-> NoTimer, height |-> 0, position |-> <<0, 0>>,
           width |-> 0, left |-> 0, labelLeftOffset |-> 0, labelWidth |-> 0,
           visible |-> FALSE, inst |-> NoInstance]

Commit(s, op, args) ==
    /\ parameters' = s.parameters
    /\ questionSize' = s.questionSize
    /\ interaction' = s.interaction
    /\ label' = s.label
    /\ instance' = s.instance
    /\ dom' = s.dom
    /\ element' = s.element
    /\ labelLeft' = s.labelLeft
    /\ instances' = s.instances
    /\ nextElem' = s.nextElem
    /\ timers' = s.timers
    /\ loads' = s.loads
    /\ scrolls' = s.scrolls
    /\ displayLog' = s.displayLog
    /\ dialogOpens' = s.dialogOpens
    /\ lastOp' = [op |-> op, args |-> args, was |-> interaction,
                  ret |-> s.ret, threw |-> s.threw, resized |-> s.resized,
                  positions |-> s.positions, fits |-> s.fits,
                  scheduled |-> s.scheduled, opened |-> s.opened,
                  displayed |-> s.displayed]
    /\ UNCHANGED <<library, fontSize, dialogDisabled, file>>

AsSize(wh) == [width |-> wh[1], height |-> wh[2]]
AsMax(wh) == [width |-> Num(wh[1]), height |-> Num(wh[2])]

Toggle ==
    \E second \in Seconds :
        /\ toggle(Cur, second).nextElem <= MaxElems + 1
        /\ Commit(toggle(Cur, second), "toggle", [NoArgs EXCEPT !.second = second])

Remove ==
    \E updateSize \in BOOLEAN :
        Commit(remove(Cur, updateSize), "remove", [NoArgs EXCEPT !.updateSize = updateSize])

SetPosition ==
    \E xy \in Positions :
        Commit(setPosition(Cur, xy[1], xy[2]), "setPosition", [NoArgs EXCEPT !.position = xy])

SetSize ==
    \E wh \in SizeArgs :
        /\ setSize(Cur, wh[1], wh[2]).nextElem <= MaxElems + 1
        /\ Commit(setSize(Cur, wh[1], wh[2]), "setSize", [NoArgs EXCEPT !.size = AsSize(wh)])

PositionLabel ==
    \E left \in {40, 60}, labelWidth \in {20, 40} :
        Commit(positionLabel(Cur, 100, left, 20, labelWidth), "positionLabel",
               [NoArgs EXCEPT !.width = 100, !.left = left, !.labelLeftOffset = 20,
                              !.labelWidth = labelWidth])

Click ==
    /\ interaction # NoElem
    /\ element.kind = "button"
    /\ dialogOpens < MaxDialogs
    /\ \E max \in MaxSizes : Commit(click(Cur, AsMax(max)), "click", NoArgs)

Timeout ==
    /\ timers # <<>>
    /\ Len(scrolls) < MaxScrolls
    /\ \E height \in (IF library = "H5P.Summary" /\ Head(timers).kind = "dialogResize"
                         THEN Heights ELSE {0}) :
           Commit(timeout([Cur EXCEPT !.timers = Tail(@)], Head(timers), height),
                  "timeout", [NoArgs EXCEPT !.timer = Head(timers), !.height = height])

ImageLoaded ==
    \E k \in 1..Len(loads), visible \in BOOLEAN, natural \in NaturalSizes :
        Commit(imageLoaded([Cur EXCEPT !.loads = RemoveAt(@, k)], loads[k], visible,
                           AsMax(natural)),
               "imageLoaded", [NoArgs EXCEPT !.visible = visible, !.inst = loads[k].inst])

\* the sub-content of a dialog announces that it changed size
InstanceResize ==
    /\ library = "H5P.Summary"
    /\ Len(scrolls) < MaxScrolls
    /\ \E i \in 1..Len(instances), height \in Heights :
           /\ instances[i].owner = NoElem
           /\ Commit(resizeListener(Cur, i, height), "resize",
                     [NoArgs EXCEPT !.height = height, !.inst = i])

\* the 500 ms timer of the resize listener: dialog.scroll(height, 300)
Scroll ==
    /\ scrolls # <<>>
    /\ Commit([Cur EXCEPT !.scrolls = Tail(@)], "scroll",
              [NoArgs EXCEPT !.height = Head(scrolls).height, !.inst = Head(scrolls).inst])

Constructed ==
    /\ parameters \in [x : {10}, y : {10}, width : {NaN}, height : {NaN},
                       duration : Durations, displayAsButton : DisplayAsButtonValues,
                       label : BOOLEAN]
    /\ (isButton(parameters) \/ ~parameters.label)
    /\ questionSize = IF library = "H5P.DragQuestion"
                      THEN [width |-> Num(160), height |-> Num(100)] ELSE NoSize
    /\ fontSize \in CASE library = "H5P.DragQuestion" -> FontSizes
                      [] library = "H5P.Image" -> ImageFontSizes
                      [] OTHER -> {16}
    /\ dialogDisabled \in IF isButton(parameters) THEN BOOLEAN ELSE {FALSE}
    /\ interaction = NoElem
    /\ label = NoElem
    /\ instance = NoInstance
    /\ dom = {}
    /\ element = NoElement
    /\ labelLeft = FALSE
    /\ instances = <<>>
    /\ nextElem = 1
    /\ timers = <<>>
    /\ loads = <<>>
    /\ scrolls = <<>>
    /\ displayLog = <<>>
    /\ dialogOpens = 0
    /\ lastOp = [op |-> "new", args |-> NoArgs, was |-> NoElem, ret |-> NoElem,
                 threw |-> FALSE, resized |-> <<>>, positions |-> <<>>, fits |-> <<>>,
                 scheduled |-> <<>>, opened |-> NoInstance, displayed |-> <<>>]

\* The show/hide life cycle: the public methods the host calls and the timers
\* they leave behind.
Init ==
    /\ library \in Libraries
    /\ file = NoSize
    /\ Constructed

Next ==
    \/ Toggle
    \/ Remove
    \/ SetPosition
    \/ SetSize
    \/ PositionLabel
    \/ Timeout

Spec == Init /\ [][Next]_vars

\* The life cycle together with the dialog of a button: clicks, image loads,
\* resize events of the sub-content and the scroll timers.
InitDialog ==
    /\ library \in Libraries
    /\ file \in IF library = "H5P.Image"
                THEN {NoSize, [width |-> Num(1600), height |-> Num(900)]} ELSE {NoSize}
    /\ Constructed

NextDialog ==
    \/ Toggle
    \/ Remove
    \/ Click
    \/ Timeout
    \/ ImageLoaded
    \/ InstanceResize
    \/ Scroll

SpecDialog == InitDialog /\ [][NextDialog]_vars
\* resizeImage on its own: every natural size and available area of the sets
MaxNaturalUnits == 10
FitNaturals == {<<160 * a, 100 * b>> : a \in 0..MaxNaturalUnits, b \in 0..MaxNaturalUnits}
FitMaxes == {<<40, 30>>, <<20, 25>>, <<30, 40>>, <<5, 60>>}

ResizeImage ==
    \E max \in FitMaxes, natural \in FitNaturals :
        Commit(resizeImage(Cur, AsMax(max), AsMax(natural)), "resizeImage", NoArgs)

InitImage ==
    /\ library = "H5P.Image"
    /\ file = NoSize
    /\ Constructed
    /\ parameters.displayAsButton = "undefined"
    /\ parameters.duration = [from |-> 1, to |-> 1]
    /\ ~parameters.label
    /\ ~dialogDisabled

NextImage == ResizeImage

SpecImage == InitImage /\ [][NextImage]_vars
\* ------------------------------------------------------------ the claims
\* second lies in the visibility window [from, to]
InWindow(d, second) == d.from <= second /\ second <= d.to
\* the handles of the elements that were created and removed again
Destroyed == (1..(nextElem - 1)) \ dom
\* the call that ran last created a visual element
Created == interaction # NoElem /\ interaction # lastOp.was
IsResizeTimer(t) == t.kind \in {"posterResize", "dialogResize"}

\* C1: right after toggle(s) a visual element exists exactly when
\* from <= s <= to, whatever was called before.
ToggleShowsIffInWindow ==
    lastOp.op = "toggle" =>
        ((interaction # NoElem) <=> InWindow(parameters.duration, lastOp.args.second))

\* C1 witness: a toggle back into the window shows the element a second time
SeekBackShown ==
    /\ lastOp.op = "toggle"
    /\ InWindow(parameters.duration, lastOp.args.second)
    /\ interaction # NoElem
    /\ nextElem = 3

\* C2: every creation of a visual element fires 'display' once, inside the
\* creating call and with the new element; a call that creates nothing fires
\* nothing; at most one visual element exists.
DisplayOncePerCreation ==
    /\ Cardinality(dom) <= 1
    /\ displayLog = [k \in 1..(nextElem - 1) |-> k]
    /\ lastOp.displayed = (IF Created THEN <<interaction>> ELSE <<>>)

\* C2 witness: toggle inside the window while the element is on display
ToggleWhileShown ==
    /\ lastOp.op = "toggle"
    /\ InWindow(parameters.duration, lastOp.args.second)
    /\ lastOp.was # NoElem
    /\ interaction = lastOp.was
    /\ displayLog = <<1>>

\* C3: a visual element appears only as the result of a toggle(s) with s in
\* the window.
ShownOnlyByToggleInWindow ==
    (lastOp.was = NoElem /\ interaction # NoElem) =>
        (lastOp.op = "toggle" /\ InWindow(parameters.duration, lastOp.args.second))

\* C4: toggle(s) returns the element that exists after the call when s is in
\* the window, and nothing otherwise.
ToggleReturnsHandle ==
    lastOp.op = "toggle" =>
        lastOp.ret = (IF InWindow(parameters.duration, lastOp.args.second)
                      THEN interaction ELSE NoElem)

\* C5: the in-window toggle after a destruction creates a new element, fires
\* 'display' for it and returns it; no destroyed handle is the current
\* handle or a return value.
NoStaleHandle ==
    /\ interaction \notin Destroyed
    /\ lastOp.ret \notin Destroyed
    /\ (lastOp.op = "toggle" /\ lastOp.was = NoElem
            /\ InWindow(parameters.duration, lastOp.args.second))
        => (/\ interaction = nextElem - 1
            /\ lastOp.ret = interaction
            /\ lastOp.displayed = <<interaction>>)

\* C5 witness: an element created by toggle after an earlier one was destroyed
RecreatedAfterDestroy ==
    /\ lastOp.op = "toggle"
    /\ lastOp.was = NoElem
    /\ lastOp.ret # NoElem
    /\ Destroyed # {}

\* C6: setSize completes and causes exactly one resize notification, sent or
\* scheduled for the next tick.
SetSizeNotifiesOnce ==
    lastOp.op = "setSize" =>
        /\ ~lastOp.threw
        /\ Len(lastOp.resized) + Len(SelectSeq(lastOp.scheduled, IsResizeTimer)) = 1

\* C7: a timer callback that runs after the element of its creating call was
\* destroyed does not fail and notifies nobody.
StaleTimeoutIsNoOp ==
    (lastOp.op = "timeout" /\ lastOp.args.timer.elem \notin dom) =>
        (~lastOp.threw /\ lastOp.resized = <<>>)

\* C8: remove without a visual element does not throw and changes nothing:
\* the interaction stays hidden, parameters and the content's size settings
\* keep their values.
RemoveHiddenIsNoOp ==
    [][(lastOp'.op = "remove" /\ interaction = NoElem) =>
        (/\ ~lastOp'.threw
         /\ interaction' = NoElem
         /\ UNCHANGED <<parameters, questionSize, dom, element, label, instance,
                        instances, nextElem, timers, displayLog>>)]_vars

\* C8 witness: remove(true) on a drag question that was shown and is hidden
RemoveTwice ==
    /\ lastOp.op = "remove"
    /\ lastOp.args.updateSize
    /\ lastOp.was = NoElem
    /\ library = "H5P.DragQuestion"
    /\ Destroyed # {}

\* C9: isButton() is false exactly when displayAsButton is false and the
\* library is not H5P.Nil, and the element on display is a button exactly
\* when isButton() holds.
IsButtonRule ==
    /\ isButton(parameters) <=>
           ~(parameters.displayAsButton = "false" /\ library # "H5P.Nil")
    /\ interaction # NoElem =>
           element.kind = (IF parameters.displayAsButton = "false" /\ library # "H5P.Nil"
                           THEN "poster" ELSE "button")

\* C9 witness: the sentinel library shown as a button although displayAsButton is false
SentinelShownAsButton ==
    /\ library = "H5P.Nil"
    /\ parameters.displayAsButton = "false"
    /\ element.kind = "button"

\* C10: the fitted size is within max in both axes, has the aspect ratio of
\* the natural size, is the natural size in em when that already fits, and
\* is 40 x 22.5 for 1600 x 900 in 40 x 30.
FitWithinMax ==
    \A k \in 1..Len(lastOp.fits) :
        LET f == lastOp.fits[k]
            em == [width |-> Rat(f.natural.width[1], 16),
                   height |-> Rat(f.natural.height[1], 16)]
        IN  /\ RLe(f.size.width, f.max.width)
            /\ RLe(f.size.height, f.max.height)
            /\ RMul(f.size.width, f.natural.height) = RMul(f.size.height, f.natural.width)
            /\ (RLe(em.width, f.max.width) /\ RLe(em.height, f.max.height)) => f.size = em
            /\ (f.natural = AsMax(<<1600, 900>>) /\ f.max = AsMax(<<40, 30>>))
                   => f.size = [width |-> Num(40), height |-> Rat(45, 2)]

\* C10 witness: 1600 x 900 fitted into 40 x 30 by both passes
BothPassesApplied ==
    /\ lastOp.op = "resizeImage"
    /\ Len(lastOp.fits) = 1
    /\ lastOp.fits[1].natural = AsMax(<<1600, 900>>)
    /\ lastOp.fits[1].max = AsMax(<<40, 30>>)
    /\ lastOp.fits[1].size.width = Num(40)
    /\ RGt(Num(30), lastOp.fits[1].size.height)

\* C11: after positionLabel on a button on display that has a label, the label
\* carries the left-flip flag exactly when button left + label left + label
\* width is greater than the container width.
LabelFlipsIffBeyondEdge ==
    (lastOp.op = "positionLabel" /\ interaction # NoElem /\ label = interaction) =>
        /\ ~lastOp.threw
        /\ labelLeft <=> (lastOp.args.left + lastOp.args.labelLeftOffset
                              + lastOp.args.labelWidth > lastOp.args.width)

\* C11 witness: a label whose right edge is exactly at the container width is not flipped
LabelAtEdgeNotFlipped ==
    /\ lastOp.op = "positionLabel"
    /\ interaction # NoElem
    /\ label = interaction
    /\ lastOp.args.left + lastOp.args.labelLeftOffset + lastOp.args.labelWidth
           = lastOp.args.width
    /\ ~labelLeft

\* C12: setPosition(x, y) stores x and y and does nothing else: the element on
\* display stays where it is, no 'display' event, no resize notification, no
\* timer; every element is created at the x and y stored at that moment.
SetPositionOnlyStores ==
    /\ [](lastOp.op = "setPosition" =>
            /\ parameters.x = lastOp.args.position[1]
            /\ parameters.y = lastOp.args.position[2]
            /\ lastOp.displayed = <<>>
            /\ lastOp.resized = <<>>
            /\ lastOp.scheduled = <<>>
            /\ ~lastOp.threw)
    /\ [](Created => (element.x = parameters.x /\ element.y = parameters.y))
    /\ [][lastOp'.op = "setPosition" =>
            /\ parameters' = [parameters EXCEPT !.x = parameters'.x, !.y = parameters'.y]
            /\ UNCHANGED <<questionSize, interaction, label, instance, dom, element,
                           labelLeft, instances, nextElem, timers, loads, scrolls,
                           displayLog, dialogOpens>>]_vars

\* C12 witness: toggle creates an element at the position set by setPosition
CreatedAtNewPosition ==
    /\ lastOp.op = "toggle"
    /\ Created
    /\ element.x = 60
    /\ element.y = 40

\* em = px / fontSize
IsPxInEm(em, px) == ~IsNaN(em) /\ em[1] * fontSize * px[2] = px[1] * em[2]
\* px = round(em * fontSize), halves rounded up; not a number when em is none
IsEmInPx(px, em) ==
    IF IsNaN(em) THEN IsNaN(px)
    ELSE /\ px[2] = 1
         /\ 2 * px[1] * em[2] <= 2 * em[1] * fontSize + em[2]
         /\ 2 * em[1] * fontSize + em[2] < (2 * px[1] + 2) * em[2]

\* C13: remove(updateSize) on an element on display destroys it; with
\* updateSize and the drag question library a button takes its stored size
\* from the content's settings (px / font size) and a poster writes
\* round(stored size * font size) to the settings; otherwise neither changes.
RemoveSyncsDragQuestionSize ==
    [][(lastOp'.op = "remove" /\ interaction # NoElem) =>
        /\ interaction' = NoElem
        /\ dom' = dom \ {interaction}
        /\ IF lastOp'.args.updateSize /\ library = "H5P.DragQuestion"
           THEN IF element.kind = "button"
                THEN /\ IsPxInEm(parameters'.width, questionSize.width)
                     /\ IsPxInEm(parameters'.height, questionSize.height)
                     /\ questionSize' = questionSize
                ELSE /\ IsEmInPx(questionSize'.width, parameters.width)
                     /\ IsEmInPx(questionSize'.height, parameters.height)
                     /\ parameters' = parameters
           ELSE parameters' = parameters /\ questionSize' = questionSize]_vars

\* C13 witness: remove(true) wrote 10.5 em at 13 px to the settings as 137 px
PosterSizeRounded ==
    /\ lastOp.op = "remove"
    /\ lastOp.args.updateSize
    /\ lastOp.was # NoElem
    /\ fontSize = 13
    /\ parameters.width = Rat(21, 2)
    /\ questionSize.width = Num(137)

\* the sub-content instances that were created for a dialog
DialogInstances == {i \in 1..Len(instances) : instances[i].owner = NoElem}

\* C14: a click on the button opens the dialog, once and with a new
\* sub-content instance, exactly when the dialog is not disabled and the
\* library is not H5P.Nil; nothing else opens a dialog, so none is opened for
\* the sentinel library, for a disabled interaction or for a poster.
ClickOpensDialog ==
    /\ lastOp.op = "click" =>
           ((lastOp.opened # NoInstance) <=> (~dialogDisabled /\ library # "H5P.Nil"))
    /\ lastOp.opened # NoInstance =>
           /\ lastOp.op = "click"
           /\ lastOp.opened = Len(instances)
           /\ lastOp.opened \in DialogInstances
    /\ dialogOpens = Cardinality(DialogInstances)
    /\ (dialogDisabled \/ library = "H5P.Nil" \/ parameters.displayAsButton = "false")
           => dialogOpens = 0

\* C14 witness: a click on the button of the sentinel library opens nothing
SentinelClicked ==
    /\ lastOp.op = "click"
    /\ library = "H5P.Nil"
    /\ ~dialogDisabled
    /\ lastOp.opened = NoInstance
    /\ dialogOpens = 0

\* C15: after setSize(width, height) the stored width and height are the
\* arguments of the call, for every library, display mode and life-cycle
\* state; the destroy-and-recreate step of the drag question does not
\* overwrite them.
SetSizeStoresArguments ==
    lastOp.op = "setSize" =>
        /\ parameters.width = lastOp.args.size.width
        /\ parameters.height = lastOp.args.size.height

\* C16: the sub-content instance of a destroyed element is released with the
\* element: every resize notification an operation sends goes to an instance
\* whose element is still in the document.
NoResizeAfterDestroy ==
    \A k \in 1..Len(lastOp.resized) :
        instances[lastOp.resized[k]].owner \in dom

\* the image file has its natural dimensions stored
StoredDimensions == Truthy(file.width) /\ Truthy(file.height)

\* the image-load callbacks that wait for the image of dialog instance i
PendingLoads(i) == {k \in 1..Len(loads) : loads[k].inst = i}

\* C17: an open of the dialog calls dialog.position, once and relative to the
\* button, exactly when the library is neither H5P.Summary nor H5P.Blanks.
\* An image with stored dimensions is positioned with the fitted size; an
\* image without them is positioned without a size and the fit waits for the
\* image-load callback, which fits and positions only if the image is visible.
DialogPositionedByLibrary ==
    /\ lastOp.opened # NoInstance =>
           /\ Len(lastOp.positions) =
                  (IF library \in {"H5P.Summary", "H5P.Blanks"} THEN 0 ELSE 1)
           /\ \A k \in 1..Len(lastOp.positions) :
                  lastOp.positions[k].anchor = interaction
           /\ (library = "H5P.Image" /\ StoredDimensions) =>
                  /\ Len(lastOp.fits) = 1
                  /\ lastOp.fits[1].natural = file
                  /\ lastOp.positions[1].size = lastOp.fits[1].size
                  /\ RLe(lastOp.fits[1].size.width, lastOp.fits[1].max.width)
                  /\ RLe(lastOp.fits[1].size.height, lastOp.fits[1].max.height)
                  /\ PendingLoads(lastOp.opened) = {}
           /\ (library = "H5P.Image" /\ ~StoredDimensions) =>
                  /\ lastOp.fits = <<>>
                  /\ lastOp.positions[1].size = NoSize
                  /\ Cardinality(PendingLoads(lastOp.opened)) = 1
           /\ library # "H5P.Image" =>
                  /\ lastOp.fits = <<>>
                  /\ \A k \in 1..Len(lastOp.positions) : lastOp.positions[k].size = NoSize
                  /\ loads = <<>>
    /\ lastOp.op = "imageLoaded" =>
           /\ Len(lastOp.fits) = (IF lastOp.args.visible THEN 1 ELSE 0)
           /\ Len(lastOp.positions) = Len(lastOp.fits)
           /\ \A k \in 1..Len(lastOp.fits) :
                  /\ lastOp.positions[k].size = lastOp.fits[k].size
                  /\ RLe(lastOp.fits[k].size.width, lastOp.fits[k].max.width)
                  /\ RLe(lastOp.fits[k].size.height, lastOp.fits[k].max.height)
           /\ PendingLoads(lastOp.args.inst) = {}
    /\ lastOp.op \notin {"click", "imageLoaded"} =>
           lastOp.positions = <<>> /\ lastOp.fits = <<>>

\* C17 witness: the image loaded while visible, and the deferred fit
\* positioned the dialog with the fitted size
DeferredFitApplied ==
    /\ lastOp.op = "imageLoaded"
    /\ lastOp.args.visible
    /\ ~StoredDimensions
    /\ Len(lastOp.fits) = 1
    /\ lastOp.positions = <<[anchor |-> interaction, size |-> lastOp.fits[1].size]>>
    /\ lastOp.fits[1].size = [width |-> Num(40), height |-> Rat(45, 2)]

\* the pending zero-delay timers that will notify dialog instance i
DialogResizeTimers(i) ==
    {k \in 1..Len(timers) : timers[k].kind = "dialogResize" /\ timers[k].inst = i}

DialogResizeRan(i) ==
    /\ lastOp.op = "timeout"
    /\ lastOp.args.timer.kind = "dialogResize"
    /\ lastOp.args.timer.inst = i

\* C18: an open of the dialog sends no resize notification itself and
\* schedules exactly one, for the instance it created; that timer stays
\* pending until it runs, and when it runs it notifies that instance once.
\* This is so for every library.
DialogResizeOnLaterTick ==
    /\ [](lastOp.opened # NoInstance =>
              /\ lastOp.resized = <<>>
              /\ ~lastOp.threw
              /\ lastOp.scheduled = <<[kind |-> "dialogResize", elem |-> interaction,
                                       inst |-> lastOp.opened]>>
              /\ Cardinality(DialogResizeTimers(lastOp.opened)) = 1)
    /\ [](\A i \in DialogInstances :
              /\ Cardinality(DialogResizeTimers(i)) <= 1
              /\ DialogResizeRan(i) =>
                     /\ ~lastOp.threw
                     /\ lastOp.resized = <<i>>
                     /\ DialogResizeTimers(i) = {})
    /\ [](\A k \in 1..Len(lastOp.resized) :
              lastOp.resized[k] \in DialogInstances => DialogResizeRan(lastOp.resized[k]))
    /\ [][\A i \in DialogInstances :
              Cardinality(DialogResizeTimers(i)') =
                  Cardinality(DialogResizeTimers(i)) - (IF DialogResizeRan(i)' THEN 1 ELSE 0)]_vars

\* C18 witness: the timer of an open ran after the click and notified the
\* instance of that open, for the summary
DialogResizeDelivered ==
    /\ library = "H5P.Summary"
    /\ lastOp.op = "timeout"
    /\ lastOp.args.timer.kind = "dialogResize"
    /\ lastOp.resized = <<lastOp.args.timer.inst>>
    /\ lastOp.args.timer.inst \in DialogInstances

\* the last step was a resize event of the sub-content of a summary dialog:
\* announced by the instance, or sent by the timer of openDialog
SummaryResized ==
    /\ library = "H5P.Summary"
    /\ \/ lastOp.op = "resize"
       \/ lastOp.op = "timeout" /\ lastOp.args.timer.kind = "dialogResize"

ResizedInstance ==
    IF lastOp.op = "resize" THEN lastOp.args.inst ELSE lastOp.args.timer.inst

\* C19: a resize event of the sub-content of a summary dialog schedules one
\* scroll to the measured height exactly when that height differs by more
\* than 10 from the height recorded at the previous resize event (0 at the
\* open), and records the measured height in either case; no scroll is
\* scheduled for any other library.
SummaryScrollsOnHeightChange ==
    /\ [](library # "H5P.Summary" => scrolls = <<>>)
    /\ [](lastOp.opened # NoInstance => instances[lastOp.opened].lastHeight = 0)
    /\ [](lastOp.op = "scroll" => library = "H5P.Summary")
    /\ [][SummaryResized' =>
              LET i == ResizedInstance'
                  height == lastOp'.args.height
              IN  /\ instances'[i].lastHeight = height
                  /\ scrolls' = IF Abs(height - instances[i].lastHeight) > 10
                                THEN Append(scrolls, [height |-> height, inst |-> i])
                                ELSE scrolls]_vars
    /\ [][~SummaryResized' =>
              /\ \/ scrolls' = scrolls
                 \/ lastOp'.op = "scroll" /\ scrolls' = Tail(scrolls)
              /\ \A i \in DialogInstances :
                     instances'[i].lastHeight = instances[i].lastHeight]_vars

\* C19 witness: the summary shrank from 11 to 0 and a scroll to 0 was scheduled
ShrinkSchedulesScroll ==
    /\ SummaryResized
    /\ lastOp.op = "resize"
    /\ lastOp.args.height = 0
    /\ scrolls = <<[height |-> 0, inst |-> lastOp.args.inst]>>

\* C20: positionLabel called while no element is on display does not fail,
\* also after a button with a label was shown and destroyed.
PositionLabelWhileHiddenIsSafe ==
    (lastOp.op = "positionLabel" /\ lastOp.was = NoElem) => ~lastOp.threw
====
